---- MODULE Spec2Model ----
(***************************************************************************)
(* Model of the mittens warmup engine (internal/pkg/warmup/warmup.go) and  *)
(* of the connect-once gRPC client (pkg/grpc/client.go).                   *)
(*                                                                         *)
(* Spec       : one call of Warmup.Run with its worker goroutines, the     *)
(*              request-source goroutines and a wall clock.                *)
(* ClientSpec : concurrent calls of Client.Request on one gRPC client.     *)
(* FairSpec   : the steps of Spec under fair scheduling (termination).     *)
(* TimedSpec  : the steps of Spec against the wall clock (durations).      *)
(* RampSpec   : Run over a wide range of ramp windows and concurrencies.   *)
(* PhaseSpec  : Run with both phases and a ramp in each.                   *)
(***************************************************************************)
EXTENDS Integers, Sequences, FiniteSets, TLC

(***************************************************************************)
(* Bounds of the model.                                                    *)
(***************************************************************************)
\* most worker goroutines of a configuration whose workers draw on request
\* pools (phases * Concurrency), each counted once for every descriptor of
\* the larger pool
MaxWorkers == 2
\* largest Concurrency of any configuration: the workers of a phase are
\* numbered 1..MaxConcurrency
MaxConcurrency == 4
\* largest ConcurrencyTargetSeconds of the configurations of RampSpec
MaxRampSeconds == 6
\* most descriptors the sources of one run select, all sources together
MaxSends == 2
\* largest request pool
MaxPool == 1
\* calls of Client.Request made on the one gRPC client of ClientSpec
MaxCalls == 3

\* time.Second / time.Millisecond: the clock of the model counts milliseconds
MillisPerSecond == 1000

Phases == {"http", "grpc"}
Workers == Phases \X (1..MaxConcurrency)
GrpcWorkers == {w \in Workers : w[1] = "grpc"}
HttpWorkers == {w \in Workers : w[1] = "http"}
Calls == 1..MaxCalls

Max(a, b) == IF a >= b THEN a ELSE b
Min(a, b) == IF a <= b THEN a ELSE b

\* Go's integer division truncates toward zero (b # 0)
GoDiv(a, b) ==
    LET q == (IF a >= 0 THEN a ELSE -a) \div (IF b >= 0 THEN b ELSE -b)
    IN IF (a >= 0) = (b >= 0) THEN q ELSE -q

VARIABLES
    cfg,        \* the Warmup value and the arguments of Run
    pc,         \* where the control thread is in Run
    idx,        \* loop variable i of the spawning loop in progress
    rampLeft,   \* milliseconds left of the control thread's time.Sleep
    interval,   \* rampUpInterval
    wg,         \* sync.WaitGroup counter
    phaseAge,   \* phase -> ms the control thread has spent in the spawning
                \* loop of the phase (counted up to RampSpan), -1 before
    connects,   \* calls of grpcClient.Connect made by Run
    connResult, \* what the Connect made by Run returned: "none" before it
                \* returns, then "ok" or "err"
    counter,    \* *requestsSentCounter
    wpc,        \* worker -> position in its goroutine
    spc,        \* worker -> position of the producer goroutine of its source
    timer,      \* worker -> ms left on its source's time.After, -1 not started
    fired,      \* worker -> the runtime has put the time on the channel of
                \* its source's time.After
    offered,    \* worker -> descriptor the producer is blocked sending, 0 none
    cur,        \* worker -> descriptor in hand, 0 none
    pause,      \* worker -> ms left of the worker's pacing time.Sleep
    reg,        \* worker -> value of the counter read by the increment
    late,       \* worker -> it received a descriptor after its source's
                \* deadline had elapsed
    okSends,    \* sends finished without error, all workers together
    errSends,   \* sends finished with an error, all workers together
    selected,   \* descriptors selected so far by all the sources of the run
    once,       \* gRPC client: state of grpcConnectOnce
    conn,       \* gRPC client: c.conn and c.descriptorSource, "nil" or "set"
    attempts,   \* gRPC client: executions of connect
    cpc,        \* call -> position in Client.Request
    connErr,    \* call -> its local connErr is not nil
    respErr,    \* call -> Err of the Response it returned, "none" before
    invokeErr,  \* call -> grpcurl.InvokeRPC returned an error to it
    elapsed,    \* ms on the wall clock since Run was called (TimedSpec only)
    busy,       \* worker -> ms its SendRequest in progress has been running
                \* (TimedSpec only)
    grpcWait    \* ms of the wall clock during which the Connect made by Run
                \* or a gRPC SendRequest was in progress (TimedSpec only)

vars == <<cfg, pc, idx, rampLeft, interval, wg, phaseAge, connects,
          connResult, counter, wpc, spc, timer, fired, offered,
          cur, pause, reg, late, okSends,
          errSends, selected, once, conn, attempts, cpc, connErr, respErr,
          invokeErr, elapsed, busy, grpcWait>>

ctlVars == <<pc, idx, rampLeft, interval, wg, phaseAge, connects, connResult>>
srcVars == <<spc, timer, fired, offered, selected>>
wrkVars == <<wpc, cur, pause, reg, late, okSends, errSends>>
cliVars == <<once, conn, attempts, cpc, connErr, respErr, invokeErr>>
clkVars == <<elapsed, busy, grpcWait>>
runVars == <<cfg, ctlVars, counter, srcVars, wrkVars, clkVars>>

(***************************************************************************)
(* Configurations: the fields of Warmup and the arguments of Run.          *)
(***************************************************************************)
\* values of maxDurationSeconds: an immediate deadline and a later one
Durations == {0, 1}
\* values of RequestDelayMilliseconds: no pacing and one second
Delays == {0, MillisPerSecond}
\* values of ConcurrencyTargetSeconds: no ramp, and a window that gives a
\* pause of a second or more before every worker after the first
RampWindows == {0, MaxWorkers}

NumPhases(c) == (IF c.hasHttp THEN 1 ELSE 0) + (IF c.hasGrpc THEN 1 ELSE 0)

\* the descriptors the sources of a run select before they idle until their
\* deadlines: MaxSends, fewer when that gives the workers of the run more
\* than MaxWorkers + MaxSends descriptors between them
Budget(c) ==
    Min(MaxSends,
        GoDiv(MaxWorkers + MaxSends, Max(1, c.Concurrency * NumPhases(c))))

Configs ==
    { c \in [ Concurrency : (-1)..MaxWorkers,
              hasHttp     : BOOLEAN,
              hasGrpc     : BOOLEAN,
              nHttp       : 0..MaxPool,
              nGrpc       : 0..MaxPool,
              maxDur      : Durations,
              delayMs     : Delays,
              rampSec     : RampWindows,
              counter0    : {0},
              \* not an input of Run
              budget      : 1..MaxSends ] :
        /\ c.budget = Budget(c)
        \* the size of a run: its workers, each counted once for every
        \* descriptor of the larger pool
        /\ c.Concurrency * NumPhases(c) * Max(1, Max(c.nHttp, c.nGrpc))
              <= MaxWorkers
        \* the pool of a phase that is not enabled is never read
        /\ (~c.hasHttp => c.nHttp = 0)
        /\ (~c.hasGrpc => c.nGrpc = 0) }

PoolLen(p) == IF p = "http" THEN cfg.nHttp ELSE cfg.nGrpc

\* a gRPC client as NewClient returns it, and no call of Request yet
ClientNew ==
    /\ once = "fresh"
    /\ conn = "nil"
    /\ attempts = 0
    /\ cpc = [k \in Calls |-> "idle"]
    /\ connErr = [k \in Calls |-> FALSE]
    /\ respErr = [k \in Calls |-> "none"]
    /\ invokeErr = [k \in Calls |-> FALSE]

\* Run has been called with configuration c and has not taken a step
RunCalled(c) ==
    /\ cfg = c
    /\ pc = "start"
    /\ idx = 0
    /\ rampLeft = 0
    /\ interval = 0
    /\ wg = 0
    /\ phaseAge = [p \in Phases |-> -1]
    /\ connects = 0
    /\ connResult = "none"
    /\ counter = c.counter0
    /\ wpc = [w \in Workers |-> "none"]
    /\ spc = [w \in Workers |-> "none"]
    /\ timer = [w \in Workers |-> -1]
    /\ fired = [w \in Workers |-> FALSE]
    /\ offered = [w \in Workers |-> 0]
    /\ cur = [w \in Workers |-> 0]
    /\ pause = [w \in Workers |-> 0]
    /\ reg = [w \in Workers |-> 0]
    /\ late = [w \in Workers |-> FALSE]
    /\ okSends = 0
    /\ errSends = 0
    /\ selected = 0
    /\ elapsed = 0
    /\ busy = [w \in Workers |-> 0]
    /\ grpcWait = 0

Init ==
    /\ \E c \in Configs : RunCalled(c)
    /\ ClientNew

(***************************************************************************)
(* The control thread: Warmup.Run.                                         *)
(***************************************************************************)
\* a ramp that pauses before the second worker only
WaitForRampUpOnce(rampUpInterval, currentConcurrency) ==
    IF currentConcurrency = 2 /\ rampUpInterval > 0 THEN rampUpInterval ELSE 0

\* waitForRampUp: the seconds the control thread sleeps before worker i
WaitForRampUp(rampUpInterval, currentConcurrency) ==
    IF currentConcurrency > 1 /\ rampUpInterval > 0 THEN rampUpInterval ELSE 0

\* an interval rounded up instead of down
RampUpIntervalCeil(c) == GoDiv(c.rampSec + c.Concurrency - 1, c.Concurrency)

\* rampUpInterval = w.ConcurrencyTargetSeconds / w.Concurrency
RampUpInterval(c) == GoDiv(c.rampSec, c.Concurrency)

RampPc(p) == IF p = "http" THEN "httpRamp" ELSE "grpcRamp"

\* where the control thread goes when the spawning loop of phase p is over:
\* line 108 after the HTTP phase, line 127 after the gRPC phase
AfterPhase(p) ==
    IF p = "http" /\ cfg.hasGrpc THEN "grpcConnect" ELSE "wait"

\* a loop that tests i < w.Concurrency
LoopToOneShort(p, i, rampUpInterval) ==
    IF i < cfg.Concurrency
    THEN [pc |-> RampPc(p), idx |-> i,
          rampLeft |-> WaitForRampUp(rampUpInterval, i) * MillisPerSecond]
    ELSE [pc |-> AfterPhase(p), idx |-> i, rampLeft |-> 0]

\* the loop of phase p tests i <= w.Concurrency: either waitForRampUp starts
\* its sleep for worker i, or the loop is over
LoopTo(p, i, rampUpInterval) ==
    IF i <= cfg.Concurrency
    THEN [pc |-> RampPc(p), idx |-> i,
          rampLeft |-> WaitForRampUp(rampUpInterval, i) * MillisPerSecond]
    ELSE [pc |-> AfterPhase(p), idx |-> i, rampLeft |-> 0]

\* lines 92-98: the division panics on Concurrency = 0 before any phase
RunBegin ==
    /\ pc = "start"
    /\ IF cfg.Concurrency = 0
         THEN /\ pc' = "panicked"
              /\ UNCHANGED <<idx, rampLeft, interval, phaseAge>>
         ELSE /\ interval' = RampUpInterval(cfg)
              /\ IF cfg.hasHttp
                   THEN LET to == LoopTo("http", 1, interval')
                        IN /\ pc' = to.pc
                           /\ idx' = to.idx
                           /\ rampLeft' = to.rampLeft
                           /\ phaseAge' = [phaseAge EXCEPT !["http"] = 0]
                   ELSE /\ pc' = AfterPhase("http")
                        /\ UNCHANGED <<idx, rampLeft, phaseAge>>
    /\ UNCHANGED <<cliVars, clkVars, cfg, wg, connects, connResult, counter>>
    /\ UNCHANGED <<srcVars, wrkVars>>

\* waitForRampUp has returned: wg.Add(1), the go statement, i++ and the next
\* test of the loop condition
Spawn(p) ==
    /\ pc = RampPc(p)
    /\ rampLeft = 0
    /\ wg' = wg + 1
    /\ wpc' = [wpc EXCEPT ![<<p, idx>>] = "spawned"]
    /\ LET to == LoopTo(p, idx + 1, interval)
       IN /\ pc' = to.pc
          /\ idx' = to.idx
          /\ rampLeft' = to.rampLeft
    /\ UNCHANGED <<cliVars, clkVars, cfg, interval, phaseAge, connects, connResult,
                   counter>>
    /\ UNCHANGED <<srcVars, cur, pause, reg, late, okSends, errSends>>

\* a Run that logs the connect error and starts the gRPC workers all the same
GrpcConnectIgnoresError(ok) ==
    /\ pc = "grpcConnect"
    /\ connects' = connects + 1
    /\ connResult' = IF ok THEN "ok" ELSE "err"
    /\ LET to == LoopTo("grpc", 1, interval)
       IN /\ pc' = to.pc
          /\ idx' = to.idx
          /\ rampLeft' = to.rampLeft
          /\ phaseAge' = [phaseAge EXCEPT !["grpc"] = 0]
    /\ UNCHANGED <<cliVars, clkVars, cfg, interval, wg, counter>>
    /\ UNCHANGED <<srcVars, wrkVars>>

\* lines 108-116: grpcClient.Connect returns nil (ok) or an error
GrpcConnect(ok) ==
    /\ pc = "grpcConnect"
    /\ connects' = connects + 1
    /\ connResult' = IF ok THEN "ok" ELSE "err"
    /\ IF ok
         THEN LET to == LoopTo("grpc", 1, interval)
              IN /\ pc' = to.pc
                 /\ idx' = to.idx
                 /\ rampLeft' = to.rampLeft
                 /\ phaseAge' = [phaseAge EXCEPT !["grpc"] = 0]
         ELSE /\ pc' = "wait"
              /\ UNCHANGED <<idx, rampLeft, phaseAge>>
    /\ UNCHANGED <<cliVars, clkVars, cfg, interval, wg, counter>>
    /\ UNCHANGED <<srcVars, wrkVars>>

\* a Wait that does not wait for the workers
WaitReturnsAtOnce == TRUE

\* wg.Wait() returns once the WaitGroup counter is zero
WaitReturns == wg = 0

RunReturn ==
    /\ pc = "wait"
    /\ WaitReturns
    /\ pc' = "returned"
    /\ UNCHANGED <<cliVars, clkVars, cfg, idx, rampLeft, interval, wg, phaseAge, connects,
                   connResult, counter>>
    /\ UNCHANGED <<srcVars, wrkVars>>

(***************************************************************************)
(* Request sources: GetWarmupHTTPRequests / GetWarmupGrpcRequests.         *)
(***************************************************************************)
\* a source that does not test its pool for emptiness
PoolNeverEmpty(p) == FALSE

\* len(w.HttpRequests) == 0, len(w.GrpcRequests) == 0
PoolEmpty(p) == PoolLen(p) = 0

\* a timeout case that is never ready
TimerNeverFires(w) == FALSE

\* maxDurationSeconds have passed since the source made its time.After
DeadlinePassed(w) == timer[w] = 0

\* case <-timeout is ready: the runtime has sent the time on the channel
\* that time.After returned
TimerFired(w) == fired[w]

\* the sources already created that have a timer
WithTimer == {v \in Workers : timer[v] >= 0}

\* one deadline for the whole run: a later source gets what is left of the
\* timer of the sources created before it
SourceDeadlineShared(w) ==
    IF WithTimer = {}
    THEN cfg.maxDur * MillisPerSecond
    ELSE CHOOSE t \in {timer[v] : v \in WithTimer} : \A v \in WithTimer : t <= timer[v]

\* line 48: timeout := time.After(maxDurationSeconds), made by the source
\* for itself when it is created
SourceDeadline(w) == cfg.maxDur * MillisPerSecond

\* the worker goroutine starts and calls GetWarmup...Requests before it enters
\* its range loop (lines 40-43, 61): the channel is made, the go statement
\* makes the producer goroutine, which has not run yet, and the worker goes
\* on to wait in its range loop
WorkerStart(w) ==
    /\ wpc[w] = "spawned"
    /\ wpc' = [wpc EXCEPT ![w] = "pull"]
    /\ spc' = [spc EXCEPT ![w] = "go"]
    /\ UNCHANGED <<cliVars, clkVars, cfg, ctlVars, counter, timer, fired, offered, selected>>
    /\ UNCHANGED <<cur, pause, reg, late, okSends, errSends>>

\* lines 44-48, the first statements of the producer goroutine: an empty
\* pool closes the channel, otherwise time.After starts the timer
ProducerStart(w) ==
    /\ spc[w] = "go"
    /\ IF PoolEmpty(w[1])
         THEN /\ spc' = [spc EXCEPT ![w] = "closed"]
              /\ UNCHANGED timer
         ELSE /\ spc' = [spc EXCEPT ![w] = "select"]
              /\ timer' = [timer EXCEPT ![w] = SourceDeadline(w)]
    /\ UNCHANGED <<cliVars, clkVars, cfg, ctlVars, counter, fired, offered, selected, wrkVars>>

\* the runtime runs the timer of time.After once its duration has passed and
\* sends the time on its channel, at a moment of its own choosing.  After the
\* producer has returned nothing reads the channel, and the send is left out
TimerSend(w) ==
    /\ DeadlinePassed(w)
    /\ ~fired[w]
    /\ spc[w] \in {"select", "offer"}
    /\ fired' = [fired EXCEPT ![w] = TRUE]
    /\ UNCHANGED <<cliVars, clkVars, cfg, ctlVars, counter, spc, timer, offered, selected, wrkVars>>

\* lines 51-54: the select takes the timeout case and closes the channel
ProducerClose(w) ==
    /\ spc[w] = "select"
    /\ TimerFired(w)
    /\ spc' = [spc EXCEPT ![w] = "closed"]
    /\ UNCHANGED <<cliVars, clkVars, cfg, ctlVars, counter, timer, fired, offered, selected, wrkVars>>

\* lines 55-57: no value is on the timer's channel, the select takes default,
\* rand.Intn picks a descriptor and the producer blocks sending it on the
\* unbuffered channel
ProducerSelect(w, number) ==
    /\ spc[w] = "select"
    /\ ~TimerFired(w)
    /\ selected < cfg.budget
    /\ number \in 0..(PoolLen(w[1]) - 1)
    /\ spc' = [spc EXCEPT ![w] = "offer"]
    /\ offered' = [offered EXCEPT ![w] = number + 1]
    /\ selected' = selected + 1
    /\ UNCHANGED <<cliVars, clkVars, cfg, ctlVars, counter, timer, fired, wrkVars>>

(***************************************************************************)
(* Workers: HTTPWarmupWorker / GrpcWarmupWorker.                           *)
(***************************************************************************)
\* the channel send meets the worker's receive and the producer goes back to
\* its select; the worker starts its pacing time.Sleep, which returns at once
\* for a delay of zero
Handoff(w) ==
    /\ spc[w] = "offer"
    /\ wpc[w] = "pull"
    /\ spc' = [spc EXCEPT ![w] = "select"]
    /\ offered' = [offered EXCEPT ![w] = 0]
    /\ cur' = [cur EXCEPT ![w] = offered[w]]
    /\ late' = [late EXCEPT ![w] = @ \/ DeadlinePassed(w)]
    /\ pause' = [pause EXCEPT ![w] = cfg.delayMs]
    /\ wpc' = [wpc EXCEPT ![w] = IF cfg.delayMs > 0 THEN "pacing" ELSE "sending"]
    /\ UNCHANGED <<cliVars, clkVars, cfg, ctlVars, counter, timer, fired, selected>>
    /\ UNCHANGED <<reg, okSends, errSends>>

\* a worker that leaves its loop without calling wg.Done()
WorkerExitNoDone(w) ==
    /\ wpc[w] = "pull"
    /\ spc[w] = "closed"
    /\ wpc' = [wpc EXCEPT ![w] = "done"]
    /\ UNCHANGED wg
    /\ UNCHANGED <<cliVars, clkVars, cfg, pc, idx, rampLeft, interval, phaseAge, connects,
                   connResult, counter, srcVars>>
    /\ UNCHANGED <<cur, pause, reg, late, okSends, errSends>>

\* the range loop ends on the closed channel: wg.Done()
WorkerExit(w) ==
    /\ wpc[w] = "pull"
    /\ spc[w] = "closed"
    /\ wpc' = [wpc EXCEPT ![w] = "done"]
    /\ wg' = wg - 1
    /\ UNCHANGED <<cliVars, clkVars, cfg, pc, idx, rampLeft, interval, phaseAge, connects,
                   connResult, counter, srcVars>>
    /\ UNCHANGED <<cur, pause, reg, late, okSends, errSends>>

\* the pacing sleep is over: the worker calls SendRequest
PacingDone(w) ==
    /\ wpc[w] = "pacing"
    /\ pause[w] = 0
    /\ wpc' = [wpc EXCEPT ![w] = "sending"]
    /\ UNCHANGED <<cliVars, clkVars, cfg, ctlVars, counter, srcVars>>
    /\ UNCHANGED <<cur, pause, reg, late, okSends, errSends>>

\* what SendRequest can return: an error, or no error with a status class
\* (the gRPC response has no status code at this layer)
Outcomes(p) == IF p = "http" THEN {"err", "2xx", "other"} ELSE {"err", "ok"}

\* a worker that gives up on the first error
AfterErrorStop == "done"

\* where a worker goes after an Outcome with resp.Err != nil
AfterError == "pull"

\* SendRequest returns and the worker looks at resp.Err: on an error it logs
\* and loops; otherwise *requestsSentCounter++ begins with a plain load of
\* the counter ...
SendReturn(w, outcome) ==
    /\ wpc[w] = "sending"
    /\ outcome \in Outcomes(w[1])
    /\ cur' = [cur EXCEPT ![w] = 0]
    /\ IF outcome = "err"
         THEN /\ wpc' = [wpc EXCEPT ![w] = AfterError]
              /\ errSends' = errSends + 1
              /\ UNCHANGED <<okSends, reg>>
         ELSE /\ wpc' = [wpc EXCEPT ![w] = "incWrite"]
              /\ reg' = [reg EXCEPT ![w] = counter]
              /\ okSends' = okSends + 1
              /\ UNCHANGED errSends
    /\ busy' = [busy EXCEPT ![w] = 0]
    /\ UNCHANGED <<cliVars, elapsed, grpcWait, cfg, ctlVars, counter, srcVars>>
    /\ UNCHANGED <<pause, late>>

\* an increment that stores back the value it read
IncWriteStale(w) ==
    /\ wpc[w] = "incWrite"
    /\ counter' = reg[w]
    /\ reg' = [reg EXCEPT ![w] = 0]
    /\ wpc' = [wpc EXCEPT ![w] = "pull"]
    /\ UNCHANGED <<cliVars, clkVars, cfg, ctlVars, srcVars>>
    /\ UNCHANGED <<cur, pause, late, okSends, errSends>>

\* ... and ends with a plain store, with no lock and no atomic
IncWrite(w) ==
    /\ wpc[w] = "incWrite"
    /\ counter' = reg[w] + 1
    /\ reg' = [reg EXCEPT ![w] = 0]
    /\ wpc' = [wpc EXCEPT ![w] = "pull"]
    /\ UNCHANGED <<cliVars, clkVars, cfg, ctlVars, srcVars>>
    /\ UNCHANGED <<cur, pause, late, okSends, errSends>>

(***************************************************************************)
(* The wall clock: one second passes; running sleeps and timers count down *)
(***************************************************************************)
Elapse(left) == IF left > 0 THEN Max(0, left - MillisPerSecond) ELSE left

\* the longest the ramp pauses of one phase can add up to, in seconds
RampSpan == Max(0, (cfg.Concurrency - 1) * interval)

\* the time spent in the spawning loop of phase p grows while the control
\* thread is in that loop; it is not counted past RampSpan
Older(p) ==
    IF pc = RampPc(p) /\ phaseAge[p] + MillisPerSecond <= RampSpan * MillisPerSecond
    THEN phaseAge[p] + MillisPerSecond
    ELSE phaseAge[p]

\* what one second does to the sleeps and timers in progress
Countdown ==
    /\ rampLeft' = Elapse(rampLeft)
    /\ phaseAge' = [p \in Phases |-> Older(p)]
    /\ timer' = [w \in Workers |-> Elapse(timer[w])]
    /\ pause' = [w \in Workers |-> Elapse(pause[w])]
    /\ UNCHANGED <<cliVars, cfg, pc, idx, interval, wg, connects, connResult,
                   counter>>
    /\ UNCHANGED <<spc, fired, offered, selected>>
    /\ UNCHANGED <<wpc, cur, reg, late, okSends, errSends>>

Tick ==
    /\ Countdown
    /\ UNCHANGED clkVars

(***************************************************************************)
(* The gRPC client of pkg/grpc/client.go: Client.Request and its           *)
(* connect-once guard.                                                     *)
(***************************************************************************)
\* a guard that tests "connected yet?" without holding a lock
OnceRunsUnguarded == once # "done"

\* sync.Once.Do runs the function for the caller that finds the Once unused
OnceRuns == once = "fresh"

\* sync.Once.Do returns at once to a caller that finds the function finished;
\* a caller that finds it running waits
OncePasses == once = "done"

\* a goroutine calls c.Request
CallBegin(k) ==
    /\ cpc[k] = "idle"
    /\ cpc' = [cpc EXCEPT ![k] = "do"]
    /\ UNCHANGED <<runVars, once, conn, attempts, connErr, respErr, invokeErr>>

\* line 84: c.grpcConnectOnce.Do; the first caller goes on to run c.connect
OnceDo(k) ==
    /\ cpc[k] = "do"
    /\ \/ /\ OnceRuns
          /\ once' = "running"
          /\ cpc' = [cpc EXCEPT ![k] = "connecting"]
       \/ /\ ~OnceRuns
          /\ OncePasses
          /\ once' = once
          /\ cpc' = [cpc EXCEPT ![k] = "check"]
    /\ UNCHANGED <<runVars, conn, attempts, connErr, respErr, invokeErr>>

\* lines 48-78 and 85: c.connect returns an error from the dial, or stores
\* the connection and the descriptor source and returns nil; the closure
\* assigns the result to the connErr of the call that ran it, and Do returns
ConnectReturn(k, ok) ==
    /\ cpc[k] = "connecting"
    /\ attempts' = attempts + 1
    /\ conn' = IF ok THEN "set" ELSE conn
    /\ connErr' = [connErr EXCEPT ![k] = ~ok]
    /\ once' = "done"
    /\ cpc' = [cpc EXCEPT ![k] = "check"]
    /\ UNCHANGED <<runVars, respErr, invokeErr>>

\* lines 88-91: the call returns the connect error held by its own connErr
CheckConnErr(k) ==
    /\ cpc[k] = "check"
    /\ IF connErr[k]
         THEN /\ respErr' = [respErr EXCEPT ![k] = "connect"]
              /\ cpc' = [cpc EXCEPT ![k] = "returned"]
         ELSE /\ cpc' = [cpc EXCEPT ![k] = "parse"]
              /\ UNCHANGED respErr
    /\ UNCHANGED <<runVars, once, conn, attempts, connErr, invokeErr>>

\* lines 93-101: grpcurl.RequestParserAndFormatterFor succeeds or returns an
\* error, which the call returns
ParseRequest(k, ok) ==
    /\ cpc[k] = "parse"
    /\ IF ok
         THEN /\ cpc' = [cpc EXCEPT ![k] = "invoke"]
              /\ UNCHANGED respErr
         ELSE /\ respErr' = [respErr EXCEPT ![k] = "parse"]
              /\ cpc' = [cpc EXCEPT ![k] = "returned"]
    /\ UNCHANGED <<runVars, once, conn, attempts, connErr, invokeErr>>

\* what grpcurl.InvokeRPC can do with c.conn and c.descriptorSource: without
\* them it returns an error or dereferences nil
InvokeOutcomes == IF conn = "nil" THEN {"err", "panic"} ELSE {"err", "ok"}

\* lines 102-110: grpcurl.InvokeRPC; both return statements set Err to nil
InvokeRPC(k, out) ==
    /\ cpc[k] = "invoke"
    /\ out \in InvokeOutcomes
    /\ IF out = "panic"
         THEN /\ cpc' = [cpc EXCEPT ![k] = "panicked"]
              /\ UNCHANGED <<respErr, invokeErr>>
         ELSE /\ cpc' = [cpc EXCEPT ![k] = "returned"]
              /\ respErr' = [respErr EXCEPT ![k] = "nil"]
              /\ invokeErr' = [invokeErr EXCEPT ![k] = (out = "err")]
    /\ UNCHANGED <<runVars, once, conn, attempts, connErr>>

Next ==
    \/ RunBegin
    \/ \E p \in Phases : Spawn(p)
    \/ \E ok \in BOOLEAN : GrpcConnect(ok)
    \/ RunReturn
    \/ \E w \in Workers : WorkerStart(w)
    \/ \E w \in Workers : ProducerStart(w)
    \/ \E w \in Workers : TimerSend(w)
    \/ \E w \in Workers : ProducerClose(w)
    \/ \E w \in Workers : \E number \in 0..(MaxPool - 1) : ProducerSelect(w, number)
    \/ \E w \in Workers : Handoff(w)
    \/ \E w \in Workers : WorkerExit(w)
    \/ \E w \in Workers : PacingDone(w)
    \/ \E w \in Workers : \E outcome \in {"err", "2xx", "other", "ok"} : SendReturn(w, outcome)
    \/ \E w \in Workers : IncWrite(w)
    \/ Tick

Spec == Init /\ [][Next]_vars

\* the steps of the control thread, of the goroutine of worker w and of the
\* producer goroutine of its source
ControlStep ==
    \/ RunBegin
    \/ \E p \in Phases : Spawn(p)
    \/ \E ok \in BOOLEAN : GrpcConnect(ok)
    \/ RunReturn

WorkerStep(w) ==
    \/ WorkerStart(w)
    \/ Handoff(w)
    \/ WorkerExit(w)
    \/ PacingDone(w)
    \/ \E outcome \in Outcomes(w[1]) : SendReturn(w, outcome)
    \/ IncWrite(w)

ProducerStep(w) ==
    \/ ProducerStart(w)
    \/ ProducerClose(w)
    \/ \E number \in 0..(MaxPool - 1) : ProducerSelect(w, number)

\* Every goroutine that can take a step is eventually scheduled (a send and
\* the connect are steps: they eventually return), the clock advances and
\* the runtime eventually runs a timer that is due.
Fairness ==
    /\ WF_vars(ControlStep)
    /\ WF_vars(Tick)
    /\ \A w \in Workers : WF_vars(WorkerStep(w)) /\ WF_vars(ProducerStep(w))
    /\ \A w \in Workers : WF_vars(TimerSend(w))

\* the runs termination is stated for: Concurrency >= 1, here with up to two
\* workers drawing on pools of at most one descriptor
LiveConfigs ==
    {c \in Configs : /\ c.Concurrency >= 1
                     /\ c.Concurrency * NumPhases(c) <= 2
                     /\ c.nHttp <= 1 /\ c.nGrpc <= 1}

FairInit ==
    /\ \E c \in LiveConfigs : RunCalled(c)
    /\ ClientNew

FairSpec == FairInit /\ [][Next]_vars /\ Fairness

(***************************************************************************)
(* Run against the wall clock.  TimedSpec takes the steps of Spec under    *)
(* the two assumptions without which no duration can be stated: the code   *)
(* itself takes no time (a step that can be taken is taken before the      *)
(* clock moves), and an HTTP send returns within the timeout of the HTTP   *)
(* client.  Nothing in the code limits how long the Connect made by Run or *)
(* a gRPC SendRequest takes: TimedSpec measures the time they take in      *)
(* grpcWait and lets each of them last up to MaxGrpcWaitSeconds.           *)
(***************************************************************************)
\* http.Client{Timeout: 10 * time.Second}
HttpTimeoutSeconds == 10

CallTimeoutMs == HttpTimeoutSeconds * MillisPerSecond

\* the longest Connect and the longest gRPC call of the runs explored
MaxGrpcWaitSeconds == 1

\* the Connect made by Run or a gRPC SendRequest is in progress
GrpcWaiting ==
    \/ pc = "grpcConnect"
    \/ \E w \in GrpcWorkers : wpc[w] = "sending"

\* a step that takes no time can be taken: the control thread is not in a
\* sleep, a connect or a Wait that blocks, or some goroutine is neither in a
\* sleep or a send nor blocked on its channel.  A producer at its select
\* always has such a step, the select having a default: a run whose sources
\* have selected cfg.budget descriptors is followed no further once a
\* producer comes to its select before its timer has fired
Urgent ==
    \/ pc = "start"
    \/ pc \in {"httpRamp", "grpcRamp"} /\ rampLeft = 0
    \/ pc = "wait" /\ WaitReturns
    \/ \E w \in Workers :
          \/ wpc[w] = "spawned"
          \/ spc[w] = "go"
          \/ spc[w] \in {"select", "offer"} /\ DeadlinePassed(w) /\ ~fired[w]
          \/ spc[w] = "select"
          \/ spc[w] = "offer" /\ wpc[w] = "pull"
          \/ wpc[w] = "pull" /\ spc[w] = "closed"
          \/ wpc[w] = "pacing" /\ pause[w] = 0
          \/ wpc[w] = "incWrite"

\* one second passes on the wall clock while Run has not returned
TimedTick ==
    /\ pc \notin {"returned", "panicked"}
    /\ ~Urgent
    /\ \A w \in HttpWorkers : wpc[w] = "sending" => busy[w] < CallTimeoutMs
    /\ \A w \in GrpcWorkers :
          wpc[w] = "sending" => busy[w] < MaxGrpcWaitSeconds * MillisPerSecond
    /\ pc = "grpcConnect" => grpcWait < MaxGrpcWaitSeconds * MillisPerSecond
    /\ Countdown
    /\ elapsed' = elapsed + MillisPerSecond
    /\ busy' = [w \in Workers |->
                  IF wpc[w] = "sending" THEN busy[w] + MillisPerSecond ELSE 0]
    /\ grpcWait' = IF GrpcWaiting THEN grpcWait + MillisPerSecond ELSE grpcWait

\* the runs the duration is stated for: Concurrency >= 1, one or two workers
\* in each enabled phase.  Which descriptor of a pool is sent makes no
\* difference to the time, so one is enough; and
\* every worker can be given three descriptors: one sent before its
\* deadline, the one it receives as the deadline passes and the one its
\* source has in flight when the timer fires
TimedConfigs ==
    { c \in [ Concurrency : 1..2,
              hasHttp     : BOOLEAN,
              hasGrpc     : BOOLEAN,
              nHttp       : 0..1,
              nGrpc       : 0..1,
              maxDur      : Durations,
              delayMs     : Delays,
              rampSec     : RampWindows,
              counter0    : {0},
              budget      : 1..12 ] :
        /\ c.budget = 3 * c.Concurrency * Max(1, NumPhases(c))
        /\ (~c.hasHttp => c.nHttp = 0)
        /\ (~c.hasGrpc => c.nGrpc = 0)
        \* two workers in both phases: with a ramp pause in each phase, a
        \* descriptor in each pool and a deadline of a second
        /\ (c.hasHttp /\ c.hasGrpc /\ c.Concurrency = 2)
              => (c.rampSec > 0 /\ c.nHttp = 1 /\ c.nGrpc = 1 /\ c.maxDur = 1) }

TimedInit ==
    /\ \E c \in TimedConfigs : RunCalled(c)
    /\ ClientNew

\* the steps of Next against the clock.  How long a send takes does not
\* depend on its outcome and counting takes no time, so the sends of
\* TimedNext all return the error outcome
TimedNext ==
    \/ RunBegin
    \/ \E p \in Phases : Spawn(p)
    \/ \E ok \in BOOLEAN : GrpcConnect(ok)
    \/ RunReturn
    \/ \E w \in Workers : WorkerStart(w)
    \/ \E w \in Workers : ProducerStart(w)
    \/ \E w \in Workers : TimerSend(w)
    \/ \E w \in Workers : ProducerClose(w)
    \/ \E w \in Workers : \E number \in 0..(MaxPool - 1) : ProducerSelect(w, number)
    \/ \E w \in Workers : Handoff(w)
    \/ \E w \in Workers : WorkerExit(w)
    \/ \E w \in Workers : PacingDone(w)
    \/ \E w \in Workers : \E outcome \in {"err"} : SendReturn(w, outcome)
    \/ TimedTick

TimedSpec == TimedInit /\ [][TimedNext]_vars

(***************************************************************************)
(* The ramp on its own: Run over a wide range of Concurrency and           *)
(* ConcurrencyTargetSeconds, with no phase enabled or with an HTTP phase   *)
(* whose pool is empty, so that the workers only start and leave.          *)
(***************************************************************************)
RampConfigs ==
    [ Concurrency : 1..MaxConcurrency,
      hasHttp     : BOOLEAN,
      hasGrpc     : {FALSE},
      nHttp       : {0},
      nGrpc       : {0},
      maxDur      : {0},
      delayMs     : {0},
      rampSec     : 0..MaxRampSeconds,
      counter0    : {0},
      budget      : {MaxSends} ]

RampInit ==
    /\ \E c \in RampConfigs : RunCalled(c)
    /\ ClientNew

RampNext ==
    \/ RunBegin
    \/ \E p \in Phases : Spawn(p)
    \/ RunReturn
    \/ \E w \in Workers : WorkerStart(w)
    \/ \E w \in Workers : ProducerStart(w)
    \/ \E w \in Workers : WorkerExit(w)
    \/ Tick

RampSpec == RampInit /\ [][RampNext]_vars

(***************************************************************************)
(* Both phases with a ramp in each: one or two workers per phase, the HTTP *)
(* workers sending from a pool of one descriptor, the gRPC workers finding *)
(* their pool empty.                                                       *)
(***************************************************************************)
PhaseConfigs ==
    [ Concurrency : 1..2,
      hasHttp     : {TRUE},
      hasGrpc     : {TRUE},
      nHttp       : {1},
      nGrpc       : {0},
      maxDur      : {1},
      delayMs     : Delays,
      rampSec     : RampWindows,
      counter0    : {0},
      budget      : {MaxSends} ]

PhaseInit ==
    /\ \E c \in PhaseConfigs : RunCalled(c)
    /\ ClientNew

PhaseSpec == PhaseInit /\ [][Next]_vars

\* the configuration under which ClientSpec leaves Run uncalled
IdleConfig ==
    [Concurrency |-> 1, hasHttp |-> FALSE, hasGrpc |-> FALSE, nHttp |-> 0,
     nGrpc |-> 0, maxDur |-> 0, delayMs |-> 0, rampSec |-> 0, counter0 |-> 0,
     budget |-> MaxSends]

ClientInit ==
    /\ RunCalled(IdleConfig)
    /\ ClientNew

ClientNext ==
    \/ \E k \in Calls : CallBegin(k)
    \/ \E k \in Calls : OnceDo(k)
    \/ \E k \in Calls : \E ok \in BOOLEAN : ConnectReturn(k, ok)
    \/ \E k \in Calls : CheckConnErr(k)
    \/ \E k \in Calls : \E ok \in BOOLEAN : ParseRequest(k, ok)
    \/ \E k \in Calls : \E out \in {"err", "ok", "panic"} : InvokeRPC(k, out)

ClientSpec == ClientInit /\ [][ClientNext]_vars

(***************************************************************************)
(* Properties of Warmup.Run (checked under Spec).                          *)
(***************************************************************************)
Started(w) == wpc[w] # "none"
Active(w) == wpc[w] \in {"spawned", "pull", "pacing", "sending", "incWrite"}
AllOk == pc = "returned" /\ okSends >= 1

\* C1: when Run has returned, every worker it spawned has terminated: none is
\* still to start, pulling, pacing, sending or writing the counter, and every
\* source a worker was bound to is closed.
C1_RunReturnsAfterAllWorkers ==
    pc = "returned" =>
        \A w \in Workers :
            /\ ~Active(w)
            /\ Started(w) => (wpc[w] = "done" /\ spc[w] = "closed")

C1_Witness ==
    /\ pc = "returned"
    /\ Cardinality({w \in Workers : wpc[w] = "done"}) >= 2
    /\ okSends >= 1

\* C2: when Run returns, the counter equals its initial value plus the number
\* of sends whose Outcome carried no error.
C2_CounterCountsEverySuccess ==
    pc = "returned" => counter = cfg.counter0 + okSends

\* C3: with Concurrency = 1 and no failed send, the counter after the run is
\* exactly the number of successful sends, whichever phases are enabled.
C3_SingleConcurrencyExact ==
    (pc = "returned" /\ cfg.Concurrency = 1 /\ errSends = 0) =>
        counter = cfg.counter0 + okSends

\* C4 as claimed: no descriptor reaches the consumer after the deadline of
\* its source has elapsed.
C4_NoDeliveryAfterDeadline == \A w \in Workers : ~late[w]

\* C4 as amended: a source starts no hand-off once its deadline timer has
\* fired, that is once the runtime has put the timer's value on its channel;
\* a descriptor that reaches the consumer after that is one the producer was
\* already blocked sending when the timer fired.
C4_NoSelectAfterDeadline ==
    /\ [][\A w \in Workers :
            (offered[w] = 0 /\ offered'[w] # 0) => (timer[w] >= 0 /\ ~fired[w])]_vars
    /\ [][\A w \in Workers :
            (fired[w] /\ cur'[w] # cur[w] /\ cur'[w] # 0) => cur'[w] = offered[w]]_vars

\* a source with a deadline of a second or more has closed after its worker
\* received a descriptor later than the deadline
C4_Witness ==
    \E w \in Workers :
        /\ cfg.maxDur > 0
        /\ late[w] /\ fired[w]
        /\ spc[w] = "closed" /\ wpc[w] = "done"

\* C5: if the deadline has elapsed when the producer loop makes its choice,
\* it closes the channel; so a source delivers at most one descriptor after
\* its deadline, and after that delivery the producer's next step closes.
C5_DeadlineWinsAtSelect ==
    /\ [][\A w \in Workers :
            (spc[w] = "select" /\ timer[w] = 0 /\ spc'[w] # "select")
                => spc'[w] = "closed"]_vars
    /\ [](\A w \in Workers :
            late[w] => (timer[w] = 0 /\ spc[w] \in {"select", "closed"}))
    /\ [][\A w \in Workers : late[w] => offered'[w] = 0]_vars

\* C6: a source over an empty pool closes without emitting and without
\* starting its timer, and its worker ends without pacing, sending or
\* touching the counter.
C6_EmptyPoolDoesNothing ==
    \A w \in Workers :
        PoolLen(w[1]) = 0 =>
            /\ wpc[w] \in {"none", "spawned", "pull", "done"}
            /\ spc[w] \in {"none", "go", "closed"}
            /\ timer[w] = -1
            /\ offered[w] = 0 /\ cur[w] = 0 /\ reg[w] = 0 /\ ~late[w]

C6_Witness ==
    \E w \in Workers :
        /\ PoolLen(w[1]) = 0
        /\ wpc[w] = "done"
        /\ \E v \in Workers : PoolLen(v[1]) > 0 /\ wpc[v] = "sending"

\* the workers of phase p started so far
StartedOf(p) == {i \in 1..MaxConcurrency : Started(<<p, i>>)}

\* C7 (checked under RampSpec, with up to MaxConcurrency workers in the
\* phase): the workers of a phase are started in the order 1..C; worker 1 is
\* started without a pause; with a positive interval, by the time k workers of
\* the phase have been started at least (k-1) * interval seconds have passed
\* since the phase began (so at most floor(t / interval) + 1 run at time t).
C7_RampIsCumulative ==
    \A p \in Phases :
        LET k == Cardinality(StartedOf(p)) IN
        /\ StartedOf(p) = 1..k
        /\ k <= Max(0, cfg.Concurrency)
        /\ (pc = RampPc(p) /\ idx = 1) => rampLeft = 0
        /\ (k >= 1 /\ interval > 0) =>
               (k - 1) * interval * MillisPerSecond <= phaseAge[p]

\* three workers over a window of six seconds: the third worker has been
\* started, four seconds into the phase, after the first has left
C7_Witness ==
    /\ cfg.Concurrency = 3 /\ cfg.rampSec = 6
    /\ interval = 2
    /\ Started(<<"http", 3>>)
    /\ phaseAge["http"] = 4 * MillisPerSecond
    /\ wpc[<<"http", 1>>] = "done"

\* C8: an Outcome with an error sends the worker back to its pull and moves
\* no other worker or source; a worker terminates only from its pull, on a
\* closed channel.
C8_ErrorNeverStopsAWorker ==
    /\ [][\A w \in Workers :
            (wpc[w] = "sending" /\ wpc'[w] # "sending" /\ errSends' = errSends + 1)
                => /\ wpc'[w] = "pull"
                   /\ spc'[w] = spc[w]
                   /\ \A v \in Workers \ {w} :
                         wpc'[v] = wpc[v] /\ spc'[v] = spc[v]]_vars
    /\ [][\A w \in Workers :
            (wpc[w] # "done" /\ wpc'[w] = "done")
                => (wpc[w] = "pull" /\ spc[w] = "closed")]_vars

\* the only worker of the run got an error and then finished a second send
C8_Witness ==
    /\ cfg.Concurrency = 1
    /\ NumPhases(cfg) = 1
    /\ errSends = 1
    /\ okSends = 0
    /\ \E w \in Workers : wpc[w] = "sending" /\ wg = 1

(***************************************************************************)
(* Properties of the gRPC client (checked under ClientSpec).               *)
(***************************************************************************)
PastGuard(k) == cpc[k] \in {"check", "parse", "invoke", "returned", "panicked"}

\* C9: connect is attempted at most once, and a call is past the guard only
\* when that one attempt has finished.
C9_ConnectOnce ==
    /\ attempts <= 1
    /\ Cardinality({k \in Calls : cpc[k] = "connecting"}) + attempts <= 1
    /\ \A k \in Calls : PastGuard(k) => (once = "done" /\ attempts = 1)

C9_Witness ==
    /\ attempts = 1
    /\ \A k \in Calls : cpc[k] \in {"returned", "panicked"}

\* C10: after a failed connect, every call returns the connect error and
\* none goes on to parse the request or to invoke the RPC.
C10_ConnectErrorReachesEveryCall ==
    (attempts = 1 /\ conn = "nil") =>
        \A k \in Calls :
            /\ cpc[k] \notin {"parse", "invoke", "panicked"}
            /\ cpc[k] = "returned" => respErr[k] = "connect"

(***************************************************************************)
(* More properties of Warmup.Run (checked under Spec).                     *)
(***************************************************************************)
\* C11: once the Connect made by Run has returned an error, no gRPC worker
\* and no gRPC source exists, ever; the step in which Connect fails moves no
\* HTTP worker and no HTTP source, HTTP workers go on after it, and Run
\* returns only when all of them are done.
C11_ConnectErrorSkipsGrpcPhase ==
    /\ [](connResult = "err" =>
            /\ \A w \in GrpcWorkers :
                  wpc[w] = "none" /\ spc[w] = "none" /\ timer[w] = -1
            /\ phaseAge["grpc"] = -1
            /\ pc \in {"wait", "returned"}
            /\ (pc = "returned" =>
                   \A i \in 1..MaxConcurrency :
                      (cfg.hasHttp /\ i <= cfg.Concurrency)
                          => wpc[<<"http", i>>] = "done"))
    /\ [][(connResult = "none" /\ connResult' = "err") =>
              UNCHANGED <<wpc, spc, timer, offered, cur, pause, reg, wg,
                          counter, okSends, errSends>>]_vars

\* the connect has failed and an HTTP worker is in a send all the same
C11_Witness ==
    /\ connResult = "err"
    /\ pc = "wait"
    /\ \E w \in HttpWorkers : wpc[w] = "sending" /\ okSends + errSends >= 1

\* C12: in a run whose gRPC pool is empty and whose HTTP pool is not, Run
\* makes no Connect and no gRPC worker ever holds a descriptor, paces or
\* sends, so every counted send is an HTTP send.
C12_EmptyGrpcPoolNoConnect ==
    (cfg.nGrpc = 0 /\ cfg.nHttp > 0) =>
        /\ connects = 0
        /\ connResult = "none"
        /\ \A w \in GrpcWorkers :
              cur[w] = 0 /\ wpc[w] \notin {"pacing", "sending", "incWrite"}

\* C13: with Concurrency <= 0 Run fails before any phase: it never gets past
\* its first statements, spawns no worker, creates no source, makes no
\* Connect and leaves the counter as it was.
C13_NonPositiveConcurrencyFails ==
    cfg.Concurrency <= 0 =>
        /\ pc \in {"start", "panicked"}
        /\ connects = 0
        /\ \A w \in Workers : wpc[w] = "none" /\ spc[w] = "none"
        /\ counter = cfg.counter0

(***************************************************************************)
(* The duration of Run (checked under TimedSpec).                          *)
(***************************************************************************)
RampWindowMs == cfg.rampSec * MillisPerSecond
DeadlineMs == cfg.maxDur * MillisPerSecond

\* C14: Run returns at most ramp-up window + source deadline + one pacing
\* delay + one call timeout after it was called; the time during which the
\* gRPC connect or a gRPC call is in progress, for which the code has no
\* timeout, is not held against the bound.
C14_DurationOneCall ==
    pc = "returned" =>
        elapsed <= RampWindowMs + DeadlineMs + cfg.delayMs + CallTimeoutMs
                   + grpcWait

(***************************************************************************)
(* The Outcome of a failed invocation (checked under ClientSpec).          *)
(***************************************************************************)
\* C15: a call whose RPC invocation failed after a successful connect
\* returns a Response whose Err is set, which is what makes the worker log a
\* failure and leave the counter alone.
C15_InvokeErrorReachesOutcome ==
    \A k \in Calls :
        (conn = "set" /\ cpc[k] = "returned" /\ invokeErr[k])
            => respErr[k] # "nil"

(***************************************************************************)
(* The ramp interval (checked under RampSpec).                             *)
(***************************************************************************)
\* the interval is the integer quotient of S by C
IsQuotient ==
    /\ interval * cfg.Concurrency <= cfg.rampSec
    /\ cfg.rampSec < (interval + 1) * cfg.Concurrency

\* the control thread pauses before no worker: no sleep is in progress and
\* waitForRampUp asks for none
NoRampPause ==
    /\ rampLeft = 0
    /\ \A i \in 1..cfg.Concurrency : WaitForRampUp(interval, i) = 0

\* C16: the interval is S div C, and whenever S = 0 or C >= S it is 0 and
\* the workers of a phase are started with no pause between them.
C16_NoPauseWhenAtLeastAsManyWorkers ==
    pc # "start" =>
        /\ IsQuotient
        /\ (cfg.rampSec = 0 \/ cfg.Concurrency >= cfg.rampSec)
               => (interval = 0 /\ NoRampPause)

\* C16 (amended): the interval is S div C, and whenever S = 0 or C > S it is
\* 0 and the workers of a phase are started with no pause between them.
C16_NoPauseWhenMoreWorkers ==
    pc # "start" =>
        /\ IsQuotient
        /\ (cfg.rampSec = 0 \/ cfg.Concurrency > cfg.rampSec)
               => (interval = 0 /\ NoRampPause)

\* two workers and a window of one second: both workers have been started
C16_Witness ==
    /\ cfg.rampSec >= 1
    /\ cfg.Concurrency > cfg.rampSec
    /\ cfg.hasHttp
    /\ \A i \in 1..cfg.Concurrency : Started(<<"http", i>>)

(***************************************************************************)
(* One source per worker (checked under Spec).                             *)
(***************************************************************************)
Running(w) == wpc[w] \notin {"none", "spawned"}
Sources == {w \in Workers : spc[w] # "none"}

\* C17: a source exists exactly for the workers that have started running,
\* so there are as many sources as such workers; a source is created by the
\* step in which its worker starts running, and its producer begins with the
\* whole deadline ahead of it, whatever the time since Run was called and
\* leaving the timers of the other sources alone; and a worker receives a
\* descriptor only from its own source, the descriptors that other sources
\* hold out staying where they are.
C17_OneSourcePerWorker ==
    /\ [](/\ \A w \in Workers : spc[w] # "none" <=> Running(w)
          /\ Cardinality(Sources) = Cardinality({w \in Workers : Running(w)})
          /\ \A w \in Workers : offered[w] # 0 <=> spc[w] = "offer")
    /\ [][\A w \in Workers :
            /\ (spc[w] = "none" /\ spc'[w] # "none") =>
                  /\ wpc[w] = "spawned" /\ wpc'[w] = "pull"
                  /\ spc'[w] = "go" /\ timer'[w] = -1
            /\ (spc[w] = "go" /\ spc'[w] = "select") =>
                  /\ timer'[w] = cfg.maxDur * MillisPerSecond
                  /\ \A v \in Workers \ {w} : timer'[v] = timer[v]
            /\ (cur[w] = 0 /\ cur'[w] # 0) =>
                  /\ cur'[w] = offered[w]
                  /\ offered'[w] = 0
                  /\ \A v \in Workers \ {w} :
                        offered'[v] = offered[v] /\ cur'[v] = cur[v]]_vars

\* the second worker of a phase has started after the deadline of the first
\* worker's source had passed, and its own source has its deadline ahead
C17_Witness ==
    \E p \in Phases :
        /\ timer[<<p, 1>>] = 0
        /\ spc[<<p, 2>>] = "select"
        /\ timer[<<p, 2>>] = cfg.maxDur * MillisPerSecond
        /\ cfg.maxDur > 0

(***************************************************************************)
(* Termination (checked under FairSpec).                                   *)
(***************************************************************************)
\* every source has closed its channel and its producer has gone, every
\* worker has left its loop and called wg.Done, and Run has returned
Terminated ==
    /\ pc = "returned"
    /\ \A w \in Workers : spc[w] \in {"none", "closed"} /\ offered[w] = 0
    /\ \A w \in Workers : wpc[w] \in {"none", "done"}
    /\ wg = 0

\* C18: with Concurrency >= 1, under fair scheduling and with sends and the
\* connect that return, every run reaches the state in which all producers
\* have closed and gone, all workers are done and Run has returned.
C18_RunTerminates == (cfg.Concurrency >= 1) => <>Terminated

\* Run has returned after a producer had been blocked on its hand-off past
\* its deadline and a worker had met an error
C18_Witness ==
    /\ Terminated
    /\ \E w \in Workers : late[w]
    /\ errSends >= 1 /\ okSends >= 1

(***************************************************************************)
(* The counter under racing increments (checked under Spec).               *)
(***************************************************************************)
\* C19: starting from 0, the counter never exceeds the number of sends
\* finished without error so far, and when Run has returned after at least
\* one such send the counter is at least 1.
C19_CounterBetweenOneAndSuccesses ==
    cfg.counter0 = 0 =>
        /\ counter <= okSends
        /\ (pc = "returned" /\ okSends >= 1) => counter >= 1

\* Run has returned with two sends finished without error and the counter
\* at 1: an increment was lost
C19_Witness ==
    /\ cfg.counter0 = 0
    /\ pc = "returned"
    /\ okSends = 2
    /\ counter = 1

(***************************************************************************)
(* The order of the two phases (checked under PhaseSpec).                  *)
(***************************************************************************)
AllHttpStarted == \A i \in 1..cfg.Concurrency : Started(<<"http", i>>)

\* the control thread is in the connect or in the gRPC spawning loop
InGrpcPhase == pc \in {"grpcConnect", "grpcRamp"}

\* C20: with both phases enabled, Connect is not called while the HTTP loop
\* is running and is called only with all C HTTP workers started; a gRPC
\* worker is started only after the one Connect has returned without error;
\* and while the control thread is in the connect or in the gRPC loop an
\* HTTP worker that is in a send can finish it and one whose source holds
\* out a descriptor can take it.
C20_PhasesInSequence ==
    (cfg.hasHttp /\ cfg.hasGrpc) =>
        /\ pc = "httpRamp" => (connects = 0 /\ connResult = "none")
        /\ (InGrpcPhase \/ connects >= 1) => AllHttpStarted
        /\ (\E w \in GrpcWorkers : Started(w)) =>
               (connects = 1 /\ connResult = "ok")
        /\ InGrpcPhase =>
               \A w \in HttpWorkers :
                  /\ wpc[w] = "sending" => ENABLED SendReturn(w, "err")
                  /\ (wpc[w] = "pull" /\ spc[w] = "offer") => ENABLED Handoff(w)

\* the control thread sleeps before starting the second gRPC worker while an
\* HTTP worker is in a send
C20_Witness ==
    /\ cfg.hasHttp /\ cfg.hasGrpc
    /\ pc = "grpcRamp"
    /\ rampLeft > 0
    /\ \E w \in HttpWorkers : wpc[w] = "sending"

====
